---- MODULE Spec2Model ----
(***************************************************************************)
(* Model of the edge-deployment notebook                                   *)
(* src/src/cloud/image_classification_pipeline.ipynb: the cells that       *)
(* trigger the training pipeline, resolve the latest approved model,       *)
(* compile it, package it and dispatch the fleet job, run top to bottom by *)
(* operators in notebook sessions whose variables persist between runs,    *)
(* against the remote services (registry, compilation, packaging, fleet).  *)
(***************************************************************************)
EXTENDS Integers, Sequences, FiniteSets, TLC

(* ------------------------------ bounds --------------------------------- *)
MaxRuns == 2
MaxVersions == 2
MaxClock == 1

Sessions == {"op1", "op2"}

(* --------------------------- program constants ------------------------- *)
NONE == "<none>"

(* A notebook variable is either unbound (reading it raises NameError) or *)
(* bound to a value.                                                      *)
Undef == <<>>
Def(v) == <<v>>
IsDef(x) == x # <<>>
Val(x) == x[1]

model_package_group_name == "grp"
OtherGroups == {"other"}
Groups == {model_package_group_name} \cup OtherGroups

model_name == "img-classification"
bucket_name == <<"b", "k", "t">>

Scheme == <<"s", "3", ":", "/", "/">>

InProgressStatuses == {"STARTING", "INPROGRESS"}
JobStatuses == {"STARTING", "INPROGRESS", "COMPLETED", "FAILED"}
ApprovalStatuses == {"Approved", "PendingManualApproval"}

(* ------------------------------ strings -------------------------------- *)
(* Strings that the code parses are sequences of one-character strings.    *)

StartsWith(s, p) ==
    /\ Len(s) >= Len(p)
    /\ SubSeq(s, 1, Len(p)) = p

RECURSIVE Replace(_, _, _)
(* str.replace(old, new): every non-overlapping occurrence, left to right *)
Replace(s, old, new) ==
    IF s = <<>> THEN <<>>
    ELSE IF StartsWith(s, old)
         THEN new \o Replace(SubSeq(s, Len(old) + 1, Len(s)), old, new)
         ELSE <<Head(s)>> \o Replace(Tail(s), old, new)

RECURSIVE SplitAt(_, _, _)
(* str.split(sep) for a one-character sep; cur is the part being read *)
SplitAt(s, sep, cur) ==
    IF s = <<>> THEN <<cur>>
    ELSE IF Head(s) = sep
         THEN <<cur>> \o SplitAt(Tail(s), sep, <<>>)
         ELSE SplitAt(Tail(s), sep, Append(cur, Head(s)))

Split(s, sep) == SplitAt(s, sep, <<>>)

RECURSIVE Join(_, _)
(* sep.join(parts) *)
Join(sep, parts) ==
    IF parts = <<>> THEN <<>>
    ELSE IF Len(parts) = 1 THEN Head(parts)
    ELSE Head(parts) \o <<sep>> \o Join(sep, Tail(parts))

(* each intermediate value (the replaced string, path_parts) is bound once *)
split_s3_path(s3_path) ==
    LET bucket(path_parts) == Head(path_parts)
        key(path_parts) == Join("/", Tail(path_parts))
    IN  CHOOSE r \in { <<bucket(path_parts), key(path_parts)>> :
                         path_parts \in { Split(replaced, "/") :
                                            replaced \in {Replace(s3_path, Scheme, <<>>)} } } : TRUE

(* 's3://{}/{}'.format(bucket_name, sub_folder) *)
S3Format(bkt, sub) == Scheme \o bkt \o <<"/">> \o sub

edgepackaging_output_sub_folder == <<"m", "/", "e">>
s3_edgepackaging_output_location == S3Format(bucket_name, edgepackaging_output_sub_folder)

(* str(version) for the one-digit versions of the model *)
Str(n) == <<ToString(n)>>

(* '%s-%d' % (model_name, int(time.time()*1000)) *)
JobName(prefix, ms) == <<prefix, ms>>

(* ------------------------------ state ---------------------------------- *)
VARIABLES
    now,        \* time.time()*1000 truncated: the clock in milliseconds
    registry,   \* model registry: group -> approval status per version
    execution,  \* session -> status of the training execution it started
    compJobs,   \* compilation jobs of the remote service, by name
    pkgJobs,    \* edge packaging jobs of the remote service, by name
    iotJobs,    \* fleet jobs created so far, in order
    pc,         \* session -> the cell (or step of a cell) to run next
    nb,         \* session -> the notebook variables of the kernel
    err,        \* session -> the exception that stopped the current run
    runs,       \* session -> number of runs started
    log,        \* session -> what the current run did so far
    operators,  \* the sessions in which an operator runs the notebook
    arg,        \* the argument of a helper function called on its own
    result,     \* what that call returned
    fs,         \* data preparation: path -> the file stored there
    mask_files, \* data preparation: the list of mask files found by glob
    loop        \* data preparation: index of the next mask file, 0: no loop

vars == <<now, registry, execution, compJobs, pkgJobs, iotJobs,
          pc, nb, err, runs, log, operators, arg, result, fs, mask_files, loop>>

NoError == [stage |-> NONE, exc |-> NONE]

EmptyLog == [compName |-> Undef, compFinal |-> NONE,
             pkgRequested |-> FALSE, pkgName |-> Undef, pkgFinal |-> NONE,
             dispatched |-> FALSE,
             nComp |-> 0, nPkg |-> 0, nIot |-> 0,
             pkgRequest |-> Undef, jobNo |-> 0]

FreshKernel ==
    [s3_model_artifact_location |-> Undef,
     compilation_job_name |-> Undef,
     resp |-> Undef,
     s3_compiled_model_artifact_location_fullpath |-> Undef,
     edge_packaging_job_name |-> Undef,
     model_version |-> Undef,
     s3_packaged_model_artifact_location_fullpath |-> Undef,
     model_bucket |-> Undef,
     model_key |-> Undef]

(* --------------------------- model registry ---------------------------- *)
ModelPackageArn(g, v) == <<g, v>>
ModelDataUrl(arn) == <<"model.tar.gz", arn[1], arn[2]>>

RECURSIVE ListFrom(_, _, _, _)
(* the summaries of the versions v, v-1, .., 1 of group g with the status *)
ListFrom(reg, g, status, v) ==
    IF v = 0 THEN <<>>
    ELSE (IF reg[g][v] = status
          THEN <<[ModelPackageVersion |-> v,
                  ModelPackageArn |-> ModelPackageArn(g, v)]>>
          ELSE <<>>) \o ListFrom(reg, g, status, v - 1)

RECURSIVE ListAllFrom(_, _, _)
ListAllFrom(reg, g, v) ==
    IF v = 0 THEN <<>>
    ELSE <<[ModelPackageVersion |-> v,
            ModelPackageArn |-> ModelPackageArn(g, v)]>> \o ListAllFrom(reg, g, v - 1)

(* list_model_packages without the ModelApprovalStatus filter *)
list_model_packages_AnyStatus(reg, g, status) == ListAllFrom(reg, g, Len(reg[g]))

(* client.list_model_packages(ModelPackageGroupName=g, ModelApprovalStatus=status) *)
list_model_packages(reg, g, status) == ListFrom(reg, g, status, Len(reg[g]))

RECURSIVE MaxFrom(_, _)
MaxFrom(list, best) ==
    IF list = <<>> THEN best
    ELSE IF Head(list).ModelPackageVersion > best.ModelPackageVersion
         THEN MaxFrom(Tail(list), Head(list))
         ELSE MaxFrom(Tail(list), best)

(* max(list, key=lambda x: x['ModelPackageVersion']) of a non-empty list *)
MaxByVersion(list) == MaxFrom(Tail(list), Head(list))

Raise(e) == [ok |-> FALSE, exc |-> e, value |-> Undef]
Return(v) == [ok |-> TRUE, exc |-> NONE, value |-> Def(v)]

get_latest_approved_s3_model_location(reg, model_package_group) ==
    LET response == list_model_packages(reg, model_package_group_name, "Approved")
    IN  IF response = <<>> THEN Raise("ValueError")
        ELSE Return(ModelDataUrl(MaxByVersion(response).ModelPackageArn))

get_latest_approved_model_version(reg, model_package_group) ==
    LET response == list_model_packages(reg, model_package_group_name, "Approved")
    IN  IF response = <<>> THEN Raise("ValueError")
        ELSE Return(MaxByVersion(response).ModelPackageVersion)

(* --------------------------- remote services --------------------------- *)
(* S3ModelArtifacts of a completed compilation job *)
CompiledArtifact(name) == <<"compiled", name>>

model_file_prefix == <<"i", "c", "-">>

(* ModelArtifact of a completed packaging job:                             *)
(* <S3OutputLocation>/<ModelName>-<ModelVersion>.tar.gz                    *)
PackagedArtifact(outputLocation, version) ==
    outputLocation \o <<"/">> \o model_file_prefix \o version

thing_group == "thinggroup/defect-detection-group"

RECURSIVE SumRuns(_, _)
SumRuns(r, S) ==
    IF S = {} THEN 0
    ELSE LET x == CHOOSE y \in S : TRUE IN r[x] + SumRuns(r, S \ {x})

TotalRuns == SumRuns(runs, Sessions)

(* a poll loop that leaves 'STARTING' out of its list *)
PollContinues_OnlyInProgress(status) == status = "INPROGRESS"

(* a poll loop that leaves 'INPROGRESS' out of its list *)
PollContinues_OnlyStarting(status) == status = "STARTING"

(* a poll loop without its break *)
PollContinues_Always(status) == TRUE

(* the poll loops go on while the status is one of these (lines 230, 275) *)
PollContinues(status) == status \in InProgressStatuses

Fail(s, stage, exc) ==
    /\ pc' = [pc EXCEPT ![s] = "failed"]
    /\ err' = [err EXCEPT ![s] = [stage |-> stage, exc |-> exc]]

Goto(s, next) ==
    /\ pc' = [pc EXCEPT ![s] = next]
    /\ UNCHANGED err

(* the workflow notebook does not touch the training data *)
NoDataset ==
    /\ fs = <<>>
    /\ mask_files = <<>>
    /\ loop = 0

(* ------------------------------- Init ---------------------------------- *)
(* the registry of the pipeline's group starts empty; the other groups     *)
(* hold approved versions with higher numbers                              *)
InitRegistry ==
    [g \in Groups |-> IF g = model_package_group_name THEN <<>>
                      ELSE [v \in 1..(MaxVersions + 1) |-> "Approved"]]

Services ==
    /\ now = 0
    /\ registry = InitRegistry
    /\ execution = [s \in Sessions |-> "NotStarted"]
    /\ compJobs = <<>>
    /\ pkgJobs = <<>>
    /\ iotJobs = <<>>
    /\ pc = [s \in Sessions |-> "idle"]
    /\ nb = [s \in Sessions |-> FreshKernel]
    /\ err = [s \in Sessions |-> NoError]
    /\ runs = [s \in Sessions |-> 0]
    /\ log = [s \in Sessions |-> EmptyLog]
    /\ NoDataset

(* one operator works in one notebook session *)
Init ==
    /\ Services
    /\ operators = {"op1"}
    /\ arg = Undef
    /\ result = Undef

(* two operators work in a session each, at the same time *)
InitOverlap ==
    /\ Services
    /\ operators = Sessions
    /\ arg = Undef
    /\ result = Undef

(* --------------------------- notebook cells ---------------------------- *)
(* Run the notebook from the top: pipeline.start(...) and execution.describe() *)
PipelineStart(s) ==
    /\ s \in operators
    /\ pc[s] \in {"idle", "done", "failed"}
    /\ TotalRuns < MaxRuns
    /\ runs' = [runs EXCEPT ![s] = @ + 1]
    /\ execution' = [execution EXCEPT ![s] = "Executing"]
    /\ log' = [log EXCEPT ![s] = EmptyLog]
    /\ pc' = [pc EXCEPT ![s] = "resolve"]
    /\ err' = [err EXCEPT ![s] = NoError]
    /\ UNCHANGED <<now, registry, compJobs, pkgJobs, iotJobs, nb, operators, arg, result, fs, mask_files, loop>>

(* line 204 *)
ResolveLocation(s) ==
    /\ pc[s] = "resolve"
    /\ LET r == get_latest_approved_s3_model_location(registry, model_package_group_name)
       IN  IF r.ok
           THEN /\ nb' = [nb EXCEPT ![s].s3_model_artifact_location = r.value]
                /\ Goto(s, "compile_submit")
           ELSE /\ UNCHANGED nb
                /\ Fail(s, "resolver", r.exc)
    /\ UNCHANGED <<now, registry, execution, compJobs, pkgJobs, iotJobs, runs, log, operators, arg, result, fs, mask_files, loop>>

(* lines 207-224 *)
CreateCompilationJob(s) ==
    /\ pc[s] = "compile_submit"
    /\ LET name == JobName(model_name, now)
       IN  /\ nb' = [nb EXCEPT ![s].compilation_job_name = Def(name)]
           /\ IF name \in DOMAIN compJobs
              THEN /\ Fail(s, "compilation", "ResourceInUse")
                   /\ log' = [log EXCEPT ![s].nComp = @ + 1]
                   /\ UNCHANGED compJobs
              ELSE /\ compJobs' = compJobs @@ (name :>
                          [status |-> "STARTING",
                           S3Uri |-> Val(nb[s].s3_model_artifact_location)])
                   /\ log' = [log EXCEPT ![s].compName = Def(name),
                                         ![s].nComp = @ + 1]
                   /\ Goto(s, "compile_poll")
    /\ UNCHANGED <<now, registry, execution, pkgJobs, iotJobs, runs, operators, arg, result, fs, mask_files, loop>>

(* lines 228-235: one iteration of the loop *)
PollCompilation(s) ==
    /\ pc[s] = "compile_poll"
    /\ LET job == compJobs[Val(nb[s].compilation_job_name)]
           resp == [status |-> job.status,
                    artifact |-> IF job.status = "COMPLETED"
                                 THEN Def(CompiledArtifact(Val(nb[s].compilation_job_name)))
                                 ELSE Undef]
       IN  /\ nb' = [nb EXCEPT ![s].resp = Def(resp)]
           /\ IF PollContinues(resp.status)
              THEN UNCHANGED <<pc, err, log>>
              ELSE /\ log' = [log EXCEPT ![s].compFinal = resp.status]
                   /\ Goto(s, "compile_result")
    /\ UNCHANGED <<now, registry, execution, compJobs, pkgJobs, iotJobs, runs, operators, arg, result, fs, mask_files, loop>>

(* a workflow that submits the compilation again when it did not complete *)
CompilationResult_Retry(s) ==
    /\ pc[s] = "compile_result"
    /\ IF Val(nb[s].resp).status = "COMPLETED"
       THEN /\ nb' = [nb EXCEPT ![s].s3_compiled_model_artifact_location_fullpath =
                                   Val(nb[s].resp).artifact]
            /\ Goto(s, "package_prepare")
       ELSE /\ UNCHANGED nb
            /\ Goto(s, "compile_submit")
    /\ UNCHANGED <<now, registry, execution, compJobs, pkgJobs, iotJobs, runs, log, operators, arg, result, fs, mask_files, loop>>

(* lines 237-239 *)
CompilationResult(s) ==
    /\ pc[s] = "compile_result"
    /\ IF Val(nb[s].resp).status = "COMPLETED"
       THEN nb' = [nb EXCEPT ![s].s3_compiled_model_artifact_location_fullpath =
                                  Val(nb[s].resp).artifact]
       ELSE UNCHANGED nb
    /\ Goto(s, "package_prepare")
    /\ UNCHANGED <<now, registry, execution, compJobs, pkgJobs, iotJobs, runs, log, operators, arg, result, fs, mask_files, loop>>

(* a workflow that reuses the variable of the compilation job name for the *)
(* packaging job name                                                      *)
PreparePackaging_Renames(s) ==
    /\ pc[s] = "package_prepare"
    /\ LET name == JobName(model_name, now)
           r == get_latest_approved_model_version(registry, model_package_group_name)
       IN  IF r.ok
           THEN /\ nb' = [nb EXCEPT ![s].edge_packaging_job_name = Def(name),
                                    ![s].compilation_job_name = Def(name),
                                    ![s].model_version = Def(Str(Val(r.value)))]
                /\ Goto(s, "package_submit")
           ELSE /\ nb' = [nb EXCEPT ![s].edge_packaging_job_name = Def(name)]
                /\ Fail(s, "packaging", r.exc)
    /\ UNCHANGED <<now, registry, execution, compJobs, pkgJobs, iotJobs, runs, log, operators, arg, result, fs, mask_files, loop>>

(* lines 256-257 *)
PreparePackaging(s) ==
    /\ pc[s] = "package_prepare"
    /\ LET name == JobName(model_name, now)
           r == get_latest_approved_model_version(registry, model_package_group_name)
       IN  IF r.ok
           THEN /\ nb' = [nb EXCEPT ![s].edge_packaging_job_name = Def(name),
                                    ![s].model_version = Def(Str(Val(r.value)))]
                /\ Goto(s, "package_submit")
           ELSE /\ nb' = [nb EXCEPT ![s].edge_packaging_job_name = Def(name)]
                /\ Fail(s, "packaging", r.exc)
    /\ UNCHANGED <<now, registry, execution, compJobs, pkgJobs, iotJobs, runs, log, operators, arg, result, fs, mask_files, loop>>

(* lines 260-269: the service takes the request, or refuses it when the name *)
(* is taken; a request that names a compilation job which did not complete *)
(* is refused or ends in a failed packaging job                            *)
CreateEdgePackagingJob(s) ==
    /\ pc[s] = "package_submit"
    /\ LET name == Val(nb[s].edge_packaging_job_name)
           comp == Val(nb[s].compilation_job_name)
           known == comp \in DOMAIN compJobs
           request == [CompilationJobName |-> comp,
                       ModelName |-> model_name,
                       ModelVersion |-> Val(nb[s].model_version)]
       IN  \E accepted \in BOOLEAN :
             /\ accepted => known
             /\ accepted \/ ~known \/ compJobs[comp].status # "COMPLETED"
             /\ IF name \in DOMAIN pkgJobs
                THEN /\ Fail(s, "packaging", "ResourceInUse")
                     /\ log' = [log EXCEPT ![s].pkgRequested = TRUE,
                                           ![s].nPkg = @ + 1,
                                           ![s].pkgRequest = Def(request)]
                     /\ UNCHANGED <<pkgJobs, nb>>
                ELSE IF ~accepted
                THEN /\ Fail(s, "packaging", "ValidationException")
                     /\ log' = [log EXCEPT ![s].pkgRequested = TRUE,
                                           ![s].nPkg = @ + 1,
                                           ![s].pkgRequest = Def(request)]
                     /\ UNCHANGED <<pkgJobs, nb>>
                ELSE /\ pkgJobs' = pkgJobs @@ (name :>
                            [status |-> "STARTING",
                             CompilationJobName |-> request.CompilationJobName,
                             ModelName |-> request.ModelName,
                             ModelVersion |-> request.ModelVersion,
                             S3OutputLocation |-> s3_edgepackaging_output_location])
                     /\ nb' = [nb EXCEPT ![s].resp =
                                  Def([status |-> NONE, artifact |-> Undef])]
                     /\ log' = [log EXCEPT ![s].pkgRequested = TRUE,
                                           ![s].nPkg = @ + 1,
                                           ![s].pkgRequest = Def(request),
                                           ![s].pkgName = Def(name)]
                     /\ Goto(s, "package_poll")
    /\ UNCHANGED <<now, registry, execution, compJobs, iotJobs, runs, operators, arg, result, fs, mask_files, loop>>

(* lines 273-280: one iteration of the loop *)
PollPackaging(s) ==
    /\ pc[s] = "package_poll"
    /\ LET job == pkgJobs[Val(nb[s].edge_packaging_job_name)]
           resp == [status |-> job.status,
                    artifact |-> IF job.status = "COMPLETED"
                                 THEN Def(PackagedArtifact(job.S3OutputLocation,
                                                           job.ModelVersion))
                                 ELSE Undef]
       IN  /\ nb' = [nb EXCEPT ![s].resp = Def(resp)]
           /\ IF PollContinues(resp.status)
              THEN UNCHANGED <<pc, err, log>>
              ELSE /\ log' = [log EXCEPT ![s].pkgFinal = resp.status]
                   /\ Goto(s, "package_result")
    /\ UNCHANGED <<now, registry, execution, compJobs, pkgJobs, iotJobs, runs, operators, arg, result, fs, mask_files, loop>>

(* a workflow that removes the compilation job when packaging did not complete *)
PackagingResult_Rollback(s) ==
    /\ pc[s] = "package_result"
    /\ IF Val(nb[s].resp).status = "COMPLETED"
       THEN /\ nb' = [nb EXCEPT ![s].s3_packaged_model_artifact_location_fullpath =
                                   Val(nb[s].resp).artifact]
            /\ UNCHANGED compJobs
       ELSE /\ UNCHANGED nb
            /\ compJobs' = [n \in DOMAIN compJobs \ {Val(nb[s].compilation_job_name)} |-> compJobs[n]]
    /\ Goto(s, "split")
    /\ UNCHANGED <<now, registry, execution, pkgJobs, iotJobs, runs, log, operators, arg, result, fs, mask_files, loop>>

(* lines 282-284 *)
PackagingResult(s) ==
    /\ pc[s] = "package_result"
    /\ IF Val(nb[s].resp).status = "COMPLETED"
       THEN nb' = [nb EXCEPT ![s].s3_packaged_model_artifact_location_fullpath =
                                  Val(nb[s].resp).artifact]
       ELSE UNCHANGED nb
    /\ Goto(s, "split")
    /\ UNCHANGED <<now, registry, execution, compJobs, pkgJobs, iotJobs, runs, log, operators, arg, result, fs, mask_files, loop>>

(* lines 300-306 *)
SplitCell(s) ==
    /\ pc[s] = "split"
    /\ IF IsDef(nb[s].s3_packaged_model_artifact_location_fullpath)
       THEN LET bk == split_s3_path(Val(nb[s].s3_packaged_model_artifact_location_fullpath))
            IN  /\ nb' = [nb EXCEPT ![s].model_bucket = Def(bk[1]),
                                     ![s].model_key = Def(bk[2])]
                /\ Goto(s, "dispatch")
       ELSE /\ UNCHANGED nb
            /\ Fail(s, "split", "NameError")
    /\ UNCHANGED <<now, registry, execution, compJobs, pkgJobs, iotJobs, runs, log, operators, arg, result, fs, mask_files, loop>>

(* lines 315-328 *)
CreateIotJob(s) ==
    /\ pc[s] = "dispatch"
    /\ iotJobs' = Append(iotJobs,
          [targets |-> <<thing_group>>,
           document |-> [type |-> "new_model",
                         model_version |-> Val(nb[s].model_version),
                         model_name |-> model_name,
                         model_package_bucket |-> Val(nb[s].model_bucket),
                         model_package_key |-> Val(nb[s].model_key)],
           targetSelection |-> "SNAPSHOT"])
    /\ nb' = [nb EXCEPT ![s].resp = Def([status |-> NONE, artifact |-> Undef])]
    /\ log' = [log EXCEPT ![s].dispatched = TRUE,
                          ![s].nIot = @ + 1,
                          ![s].jobNo = Len(iotJobs) + 1]
    /\ Goto(s, "done")
    /\ UNCHANGED <<now, registry, execution, compJobs, pkgJobs, runs, operators, arg, result, fs, mask_files, loop>>

(* ------------------------------ environment ---------------------------- *)
Tick ==
    /\ now < MaxClock
    /\ now' = now + 1
    /\ UNCHANGED <<registry, execution, compJobs, pkgJobs, iotJobs,
                   pc, nb, err, runs, log, operators, arg, result, fs, mask_files, loop>>

(* a model package version is registered in a group (by a training         *)
(* pipeline execution of any operator), approved or pending approval       *)
RegisterModelPackage(g, status) ==
    /\ g = model_package_group_name
    /\ Len(registry[g]) < MaxVersions
    /\ registry' = [registry EXCEPT ![g] = Append(@, status)]
    /\ UNCHANGED <<now, execution, compJobs, pkgJobs, iotJobs,
                   pc, nb, err, runs, log, operators, arg, result, fs, mask_files, loop>>

(* the training execution started at lines 107-116 ends; on success it     *)
(* registers a version with ModelApprovalStatus="Approved"                 *)
ExecutionEnds(s, ok) ==
    /\ execution[s] = "Executing"
    /\ IF ok
       THEN /\ Len(registry[model_package_group_name]) < MaxVersions
            /\ registry' = [registry EXCEPT ![model_package_group_name] =
                                                Append(@, "Approved")]
            /\ execution' = [execution EXCEPT ![s] = "Succeeded"]
       ELSE /\ execution' = [execution EXCEPT ![s] = "Failed"]
            /\ UNCHANGED registry
    /\ UNCHANGED <<now, compJobs, pkgJobs, iotJobs, pc, nb, err, runs, log, operators, arg, result, fs, mask_files, loop>>

(* the compilation service moves a job forward *)
CompilationProgress(name, status) ==
    /\ name \in DOMAIN compJobs
    /\ \/ compJobs[name].status = "STARTING" /\ status \in {"INPROGRESS", "FAILED"}
       \/ compJobs[name].status = "INPROGRESS" /\ status \in {"COMPLETED", "FAILED"}
    /\ compJobs' = [compJobs EXCEPT ![name].status = status]
    /\ UNCHANGED <<now, registry, execution, pkgJobs, iotJobs,
                   pc, nb, err, runs, log, operators, arg, result, fs, mask_files, loop>>

(* the packaging service moves a job forward; it completes only a job that *)
(* references a completed compilation job                                  *)
PackagingProgress(name, status) ==
    /\ name \in DOMAIN pkgJobs
    /\ \/ pkgJobs[name].status = "STARTING" /\ status \in {"INPROGRESS", "FAILED"}
       \/ pkgJobs[name].status = "INPROGRESS" /\ status \in {"COMPLETED", "FAILED"}
    /\ status = "COMPLETED" =>
          compJobs[pkgJobs[name].CompilationJobName].status = "COMPLETED"
    /\ pkgJobs' = [pkgJobs EXCEPT ![name].status = status]
    /\ UNCHANGED <<now, registry, execution, compJobs, iotJobs,
                   pc, nb, err, runs, log, operators, arg, result, fs, mask_files, loop>>

JobNames == {JobName(model_name, t) : t \in 0..MaxClock}

Next ==
    \/ \E s \in Sessions : PipelineStart(s)
    \/ \E s \in Sessions : ResolveLocation(s)
    \/ \E s \in Sessions : CreateCompilationJob(s)
    \/ \E s \in Sessions : PollCompilation(s)
    \/ \E s \in Sessions : CompilationResult(s)
    \/ \E s \in Sessions : PreparePackaging(s)
    \/ \E s \in Sessions : CreateEdgePackagingJob(s)
    \/ \E s \in Sessions : PollPackaging(s)
    \/ \E s \in Sessions : PackagingResult(s)
    \/ \E s \in Sessions : SplitCell(s)
    \/ \E s \in Sessions : CreateIotJob(s)
    \/ Tick
    \/ \E g \in Groups, st \in ApprovalStatuses : RegisterModelPackage(g, st)
    \/ \E s \in Sessions, ok \in BOOLEAN : ExecutionEnds(s, ok)
    \/ \E n \in JobNames, st \in JobStatuses : CompilationProgress(n, st)
    \/ \E n \in JobNames, st \in JobStatuses : PackagingProgress(n, st)

Spec == Init /\ [][Next]_vars

SpecOverlap == InitOverlap /\ [][Next]_vars

(* the kernel runs the next statement of a run that was started *)
CellStep(s) ==
    \/ ResolveLocation(s)
    \/ CreateCompilationJob(s)
    \/ PollCompilation(s)
    \/ CompilationResult(s)
    \/ PreparePackaging(s)
    \/ CreateEdgePackagingJob(s)
    \/ PollPackaging(s)
    \/ PackagingResult(s)
    \/ SplitCell(s)
    \/ CreateIotJob(s)

(* one Run All of a fresh session, with the services free to move *)
NextFair ==
    \/ \E s \in Sessions : runs[s] = 0 /\ PipelineStart(s)
    \/ \E s \in Sessions : CellStep(s)
    \/ Tick
    \/ \E g \in Groups, st \in ApprovalStatuses : RegisterModelPackage(g, st)
    \/ \E s \in Sessions, ok \in BOOLEAN : ExecutionEnds(s, ok)
    \/ \E n \in JobNames, st \in JobStatuses : CompilationProgress(n, st)
    \/ \E n \in JobNames, st \in JobStatuses : PackagingProgress(n, st)

(* a kernel that is running cells keeps running them; the services owe    *)
(* nothing: a job may stay in progress for ever                           *)
SpecFair == Init /\ [][NextFair]_vars /\ WF_vars(\E s \in Sessions : CellStep(s))

(* ------------------- split_s3_path called on its own ------------------- *)
MaxSegs == 3

Buckets == {<<"b">>, <<"b", "x">>}
Segments == {<<>>, <<"k">>, <<"s", "3", ":">>}

RECURSIVE SegLists(_)
(* the lists of 1..n segments *)
SegLists(n) ==
    IF n = 0 THEN {}
    ELSE {<<x>> : x \in Segments}
         \cup {Append(l, x) : l \in SegLists(n - 1), x \in Segments}

(* the URI s3://<bucket>/<seg1>/.../<segN> *)
UriOf(a) == S3Format(a.bucket, Join("/", a.segs))

InitSplit ==
    /\ Services
    /\ operators = {}
    /\ arg \in {Def([bucket |-> b, segs |-> l]) : b \in Buckets, l \in SegLists(MaxSegs)}
    /\ result = Undef

CallSplit ==
    /\ IsDef(arg)
    /\ result = Undef
    /\ result' = Def(split_s3_path(UriOf(Val(arg))))
    /\ UNCHANGED <<now, registry, execution, compJobs, pkgJobs, iotJobs,
                   pc, nb, err, runs, log, operators, arg, fs, mask_files, loop>>

NextSplit == CallSplit

SpecSplit == InitSplit /\ [][NextSplit]_vars

(* ------------------- the resolvers called on their own ----------------- *)
(* every registry of up to MaxVersions versions per group *)
Registries ==
    [Groups -> UNION {[1..n -> ApprovalStatuses] : n \in 0..MaxVersions}]

InitResolver ==
    /\ now = 0
    /\ registry \in Registries
    /\ execution = [s \in Sessions |-> "NotStarted"]
    /\ compJobs = <<>>
    /\ pkgJobs = <<>>
    /\ iotJobs = <<>>
    /\ pc = [s \in Sessions |-> "idle"]
    /\ nb = [s \in Sessions |-> FreshKernel]
    /\ err = [s \in Sessions |-> NoError]
    /\ runs = [s \in Sessions |-> 0]
    /\ log = [s \in Sessions |-> EmptyLog]
    /\ NoDataset
    /\ operators = {}
    /\ arg \in {Def(g) : g \in Groups}
    /\ result = Undef

(* both resolvers are called with the group arg, in a session whose        *)
(* model_package_group_name is the pipeline's group (line 41)              *)
CallResolver ==
    /\ IsDef(arg)
    /\ result = Undef
    /\ result' = Def([location |-> get_latest_approved_s3_model_location(registry, Val(arg)),
                      version |-> get_latest_approved_model_version(registry, Val(arg))])
    /\ UNCHANGED <<now, registry, execution, compJobs, pkgJobs, iotJobs,
                   pc, nb, err, runs, log, operators, arg, fs, mask_files, loop>>

NextResolver == CallResolver

SpecResolver == InitResolver /\ [][NextResolver]_vars

(* ----------------- data_preparation.ipynb: the sort loop ---------------- *)
MaxPixels == 2

(* grey values of a mask image: black, nearly black, white *)
PixelValues == {0, 1, 255}

(* np.asarray of an image of up to MaxPixels pixels *)
Images == UNION {[1..n -> PixelValues] : n \in 1..MaxPixels}

(* './data/kolektor/train/' and the two class folders, shortened *)
directory == <<".", "/", "t", "/">>
dir_normal == <<".", "/", "n">>
dir_anomalous == <<".", "/", "a">>

GT == <<"_", "G", "T">>
Png == <<".", "p", "n", "g">>

(* the data set names its images by numbers: <number>.png with the mask    *)
(* <number>_GT.png next to it                                              *)
Stems == {<<"1">>, <<"2">>}
ImagePath(stem) == directory \o stem \o Png
MaskPath(stem) == directory \o stem \o GT \o Png

(* the unpacked data set with the masks m; origin names the file of the    *)
(* data set that the content was read from                                  *)
Dataset(m) ==
    [p \in {ImagePath(st) : st \in Stems} \cup {MaskPath(st) : st \in Stems} |->
        IF \E st \in Stems : p = MaskPath(st)
        THEN [origin |-> p, pixels |-> m[CHOOSE st \in Stems : p = MaskPath(st)]]
        ELSE [origin |-> p, pixels |-> <<0>>]]

EndsWith(s, p) ==
    /\ Len(s) >= Len(p)
    /\ SubSeq(s, Len(s) - Len(p) + 1, Len(s)) = p

(* glob.glob(os.path.join(dir, '*' + suffix)): the files of dir itself *)
glob(files, dir, suffix) ==
    {f \in DOMAIN files :
        /\ StartsWith(f, dir)
        /\ EndsWith(f, suffix)
        /\ Len(f) >= Len(dir) + Len(suffix)
        /\ \A i \in (Len(dir) + 1)..Len(f) : f[i] # "/"}

(* glob returns the files in an arbitrary order *)
Orderings(S) ==
    {q \in [1..Cardinality(S) -> S] : \A x \in S : \E i \in DOMAIN q : q[i] = x}

(* os.path.join of a folder without a trailing slash and a file name *)
os_path_join(dir, name) == dir \o <<"/">> \o name

(* os.path.basename *)
basename(path) ==
    LET parts == Split(path, "/")
    IN  parts[Len(parts)]

RECURSIVE Sum(_)
Sum(img) == IF img = <<>> THEN 0 ELSE Head(img) + Sum(Tail(img))

img_read(files, path) == files[path].pixels

(* a mean computed with integer division *)
img_is_anomalous_IntMean(img) == (Sum(img) \div Len(img)) > 0

(* np.mean(img) > 0, the mean being Sum(img) / Len(img) *)
img_is_anomalous(img) == Sum(img) > 0 * Len(img)

(* shutil.copyfile: dst is created or overwritten *)
copyfile(files, src, dst) == (dst :> files[src]) @@ files

sort_img_by_mask(files, mask_file, dirn, dira) ==
    LET mask_img == img_read(files, mask_file)
        data_img == Replace(mask_file, GT, <<>>)
    IN  IF img_is_anomalous(mask_img)
        THEN copyfile(files, data_img, os_path_join(dira, basename(data_img)))
        ELSE copyfile(files, data_img, os_path_join(dirn, basename(data_img)))

(* after the cells of lines 99-117: data set unpacked, masks listed, class *)
(* folders empty                                                           *)
InitPrep ==
    /\ now = 0
    /\ registry = InitRegistry
    /\ execution = [s \in Sessions |-> "NotStarted"]
    /\ compJobs = <<>>
    /\ pkgJobs = <<>>
    /\ iotJobs = <<>>
    /\ pc = [s \in Sessions |-> "idle"]
    /\ nb = [s \in Sessions |-> FreshKernel]
    /\ err = [s \in Sessions |-> NoError]
    /\ runs = [s \in Sessions |-> 0]
    /\ log = [s \in Sessions |-> EmptyLog]
    /\ operators = {}
    /\ arg = Undef
    /\ result = Undef
    /\ fs \in {Dataset(m) : m \in [Stems -> Images]}
    /\ mask_files \in Orderings(glob(fs, directory, GT \o Png))
    /\ loop = 1

(* lines 131-132: one iteration of the loop; copyfile of a missing file    *)
(* raises and ends the loop                                                *)
SortStep ==
    /\ loop \in 1..Len(mask_files)
    /\ LET mask_file == mask_files[loop]
       IN  IF Replace(mask_file, GT, <<>>) \in DOMAIN fs
           THEN /\ fs' = sort_img_by_mask(fs, mask_file, dir_normal, dir_anomalous)
                /\ loop' = loop + 1
           ELSE /\ loop' = 0
                /\ UNCHANGED fs
    /\ UNCHANGED <<now, registry, execution, compJobs, pkgJobs, iotJobs,
                   pc, nb, err, runs, log, operators, arg, result, mask_files>>

NextPrep == SortStep

SpecPrep == InitPrep /\ [][NextPrep]_vars

(* ------------------------------ properties ----------------------------- *)
BothCompleted(s) ==
    /\ log[s].compFinal = "COMPLETED"
    /\ log[s].pkgFinal = "COMPLETED"

RunEnded(s) == pc[s] \in {"done", "failed"}

(* C1: in every run the fleet job is dispatched if and only if the         *)
(* compilation job and the packaging job of that run both ended COMPLETED  *)
C1_DispatchIffBothCompleted ==
    \A s \in Sessions :
        /\ log[s].dispatched => BothCompleted(s)
        /\ (RunEnded(s) /\ BothCompleted(s)) => log[s].dispatched

(* C2: when the compilation poll loop of a run ended with a status other   *)
(* than COMPLETED, no edge packaging request is submitted in that run      *)
C2_FailedCompilationPreventsPackaging ==
    \A s \in Sessions :
        log[s].compFinal \notin {NONE, "COMPLETED"} => ~log[s].pkgRequested

HasApproved(reg, g) == \E v \in 1..Len(reg[g]) : reg[g][v] = "Approved"

(* the highest version number among the approved versions of the group *)
HighestApproved(reg, g) ==
    CHOOSE v \in 1..Len(reg[g]) :
        /\ reg[g][v] = "Approved"
        /\ \A w \in 1..Len(reg[g]) : reg[g][w] = "Approved" => w <= v

(* C3: whenever the registry holds an approved version of the group, the   *)
(* resolver calls of the notebook return the artifact location and the     *)
(* version number of the highest-numbered approved version, never those of *)
(* a higher-numbered version that is not approved                          *)
C3_ResolverReturnsLatestApproved ==
    [][\A s \in Sessions :
         LET g == model_package_group_name
         IN  /\ (pc[s] = "resolve" /\ pc'[s] # "resolve" /\ HasApproved(registry, g))
                   => /\ pc'[s] = "compile_submit"
                      /\ nb'[s].s3_model_artifact_location =
                           Def(ModelDataUrl(ModelPackageArn(g, HighestApproved(registry, g))))
             /\ (pc[s] = "package_prepare" /\ pc'[s] # "package_prepare"
                    /\ HasApproved(registry, g))
                   => /\ pc'[s] = "package_submit"
                      /\ nb'[s].model_version = Def(Str(HighestApproved(registry, g)))
      ]_vars

(* the resolver returned version 1 while version 2 is registered, unapproved *)
C3_Witness ==
    \E s \in Sessions :
        /\ pc[s] = "compile_submit"
        /\ registry[model_package_group_name] = <<"Approved", "PendingManualApproval">>
        /\ nb[s].s3_model_artifact_location =
              Def(ModelDataUrl(ModelPackageArn(model_package_group_name, 1)))

(* C4: when the registry holds no approved version, the resolver ends in a *)
(* named "no approved model" failure and no compilation request is made    *)
C4_NoApprovedModelIsNamedFailure ==
    \A s \in Sessions :
        (pc[s] = "failed" /\ err[s].stage = "resolver")
            => /\ err[s].exc = "NoApprovedModel"
               /\ ~IsDef(log[s].compName)

(* the job names generated so far that the sessions still hold *)
GeneratedNames ==
    {<<s, "compilation">> : s \in {t \in Sessions : IsDef(nb[t].compilation_job_name)}}
    \cup {<<s, "packaging">> : s \in {t \in Sessions : IsDef(nb[t].edge_packaging_job_name)}}

NameAt(g) ==
    IF g[2] = "compilation" THEN Val(nb[g[1]].compilation_job_name)
    ELSE Val(nb[g[1]].edge_packaging_job_name)

(* C5: any two job-name generations yield different names                  *)
C5_JobNamesUnique ==
    \A g1, g2 \in GeneratedNames : g1 # g2 => NameAt(g1) # NameAt(g2)

(* C6: a polled stage that ended in a status other than COMPLETED stops    *)
(* the run at that stage, with a failure attributed to that stage          *)
C6_FailureStopsAtItsStage ==
    \A s \in Sessions :
        /\ log[s].compFinal \notin {NONE, "COMPLETED"}
              => /\ pc[s] \in {"compile_result", "failed"}
                 /\ pc[s] = "failed" => err[s].stage = "compilation"
        /\ log[s].pkgFinal \notin {NONE, "COMPLETED"}
              => /\ pc[s] \in {"package_result", "failed"}
                 /\ pc[s] = "failed" => err[s].stage = "packaging"

(* C7: split_s3_path of s3://<bucket>/<seg1>/.../<segN> returns the bucket *)
(* and the segments joined by slashes                                      *)
C7_SplitReturnsBucketAndKey ==
    IsDef(result) =>
        Val(result) = <<Val(arg).bucket, Join("/", Val(arg).segs)>>

CompJobOf(s) == compJobs[Val(log[s].compName)]
PkgJobOf(s) == pkgJobs[Val(log[s].pkgName)]

(* the jobs of the current run of s that the service is still working on *)
ActiveJobs(s) ==
    (IF IsDef(log[s].compName) /\ CompJobOf(s).status \in InProgressStatuses
     THEN {"compilation"} ELSE {})
    \cup (IF IsDef(log[s].pkgName) /\ PkgJobOf(s).status \in InProgressStatuses
          THEN {"packaging"} ELSE {})

(* C8: the packaging request is never submitted while the compilation job  *)
(* of the run is STARTING or INPROGRESS, the fleet job is never dispatched *)
(* while the packaging job of the run is STARTING or INPROGRESS, and at    *)
(* most one job of a run is in progress (being polled) at any time         *)
C8_StagesSequential ==
    \A s \in Sessions :
        /\ log[s].pkgRequested
              => /\ IsDef(log[s].compName)
                 /\ CompJobOf(s).status \notin InProgressStatuses
        /\ log[s].dispatched
              => (IsDef(log[s].pkgName) => PkgJobOf(s).status \notin InProgressStatuses)
        /\ Cardinality(ActiveJobs(s)) <= 1

(* the packaging job of a run is in progress, its compilation job is over  *)
C8_Witness ==
    \E s \in Sessions :
        /\ pc[s] = "package_poll"
        /\ PkgJobOf(s).status = "INPROGRESS"
        /\ CompJobOf(s).status = "COMPLETED"

C10_CompilationAfterTrainingSuccess ==
    \A s \in Sessions :
        (pc[s] = "compile_submit" \/ IsDef(log[s].compName))
            => execution[s] = "Succeeded"

(* the fleet job dispatched by the current run of s *)
FleetJobOf(s) == iotJobs[log[s].jobNo]

(* the packaged artifact URI that the packaging job of the current run of  *)
(* s returns                                                               *)
PackagedArtifactOf(s) ==
    PackagedArtifact(PkgJobOf(s).S3OutputLocation, PkgJobOf(s).ModelVersion)

(* C11: every dispatched fleet job has a document with type "new_model",   *)
(* the model name, the model version resolved in the run, and the bucket   *)
(* and key split out of the packaged artifact URI returned by the          *)
(* packaging job of the run; it is sent with SNAPSHOT target selection to  *)
(* the one device-group target                                             *)
C11_FleetJobDocument ==
    \A s \in Sessions :
        log[s].dispatched
            => LET job == FleetJobOf(s)
                   doc == job.document
               IN  /\ doc.type = "new_model"
                   /\ doc.model_name = model_name
                   /\ doc.model_version = Val(log[s].pkgRequest).ModelVersion
                   /\ IsDef(log[s].pkgName)
                   /\ PkgJobOf(s).status = "COMPLETED"
                   /\ <<doc.model_package_bucket, doc.model_package_key>>
                         = split_s3_path(PackagedArtifactOf(s))
                   /\ job.targetSelection = "SNAPSHOT"
                   /\ job.targets = <<thing_group>>

(* C12: once the compilation (packaging) job has a status other than       *)
(* STARTING/INPROGRESS the poll loop exits; once the packaging job, and so *)
(* the compilation job, is COMPLETED the run dispatches the fleet job; and *)
(* while the job is STARTING or INPROGRESS no step leaves the loop         *)
C12_PollLoopsTerminate ==
    /\ \A s \in Sessions :
          (pc[s] = "compile_poll" /\ CompJobOf(s).status \notin InProgressStatuses)
             ~> (pc[s] # "compile_poll")
    /\ \A s \in Sessions :
          (pc[s] = "package_poll" /\ PkgJobOf(s).status \notin InProgressStatuses)
             ~> (pc[s] # "package_poll")
    /\ \A s \in Sessions :
          (pc[s] = "package_poll" /\ PkgJobOf(s).status = "COMPLETED")
             ~> log[s].dispatched
    /\ [][\A s \in Sessions :
            /\ (pc[s] = "compile_poll" /\ CompJobOf(s).status \in InProgressStatuses)
                  => pc'[s] = "compile_poll"
            /\ (pc[s] = "package_poll" /\ PkgJobOf(s).status \in InProgressStatuses)
                  => pc'[s] = "package_poll"]_vars

(* a first run whose two jobs completed has dispatched the fleet job *)
C12_Witness ==
    \E s \in Sessions :
        /\ runs[s] = 1
        /\ BothCompleted(s)
        /\ log[s].dispatched
        /\ pc[s] = "done"

(* C13: in one run at most one compilation request, at most one packaging  *)
(* request and at most one fleet job are submitted, whatever the outcomes   *)
C13_NoRetry ==
    \A s \in Sessions :
        /\ log[s].nComp <= 1
        /\ log[s].nPkg <= 1
        /\ log[s].nIot <= 1

(* a run whose compilation job failed has ended with one request per stage *)
C13_Witness ==
    \E s \in Sessions :
        /\ RunEnded(s)
        /\ log[s].compFinal = "FAILED"
        /\ log[s].nComp = 1
        /\ log[s].nPkg = 1

(* C14: no step of the workflow or of the services deletes a compilation   *)
(* job, and a compilation job that completed (its compiled artifact with   *)
(* it) is never modified afterwards, whatever fails later                  *)
C14_NoRollback ==
    [][\A n \in DOMAIN compJobs :
          /\ n \in DOMAIN compJobs'
          /\ compJobs[n].status = "COMPLETED" => compJobs'[n] = compJobs[n]]_vars

(* a run stopped after a failed packaging job, its compilation job intact *)
C14_Witness ==
    \E s \in Sessions :
        /\ pc[s] = "failed"
        /\ log[s].compFinal = "COMPLETED"
        /\ log[s].pkgFinal = "FAILED"
        /\ IsDef(log[s].compName)
        /\ CompJobOf(s).status = "COMPLETED"

(* C15: every packaging request of a run names the compilation job that    *)
(* the same run submitted, a job the compilation service knows, together   *)
(* with the logical model name and the version number of an approved       *)
(* version of the group                                                    *)
C15_PackagingNamesOwnCompilation ==
    \A s \in Sessions :
        IsDef(log[s].pkgRequest) =>
            LET req == Val(log[s].pkgRequest)
                g == model_package_group_name
            IN  /\ IsDef(log[s].compName)
                /\ req.CompilationJobName = Val(log[s].compName)
                /\ req.CompilationJobName \in DOMAIN compJobs
                /\ req.ModelName = model_name
                /\ \E v \in 1..Len(registry[g]) :
                      /\ registry[g][v] = "Approved"
                      /\ req.ModelVersion = Str(v)

(* the second run of a session has sent its packaging request while the    *)
(* compilation job of the first run is still listed                        *)
C15_Witness ==
    \E s \in Sessions :
        /\ runs[s] = 2
        /\ IsDef(log[s].pkgRequest)
        /\ Cardinality(DOMAIN compJobs) = 2

(* C16: called with a group that has an approved version, the resolvers    *)
(* return the artifact location and the version number of the highest      *)
(* approved version of that group, whatever the other groups hold          *)
C16_ResolverUsesItsArgument ==
    (IsDef(result) /\ HasApproved(registry, Val(arg))) =>
        LET g == Val(arg)
            v == HighestApproved(registry, g)
        IN  /\ Val(result).location = Return(ModelDataUrl(ModelPackageArn(g, v)))
            /\ Val(result).version = Return(v)

(* the version of the group whose artifact the run of s gave to compilation *)
CompiledVersions(s) ==
    {v \in 1..Len(registry[model_package_group_name]) :
        CompJobOf(s).S3Uri = ModelDataUrl(ModelPackageArn(model_package_group_name, v))}

(* C17: the model version in the packaging request of a run, and in the    *)
(* fleet job document of a run that compiled, is the version of the model  *)
(* package whose artifact that run submitted to compilation                *)
C17_VersionMatchesCompiledArtifact ==
    \A s \in Sessions :
        IsDef(log[s].compName) =>
            /\ IsDef(log[s].pkgRequest) =>
                  \E v \in CompiledVersions(s) :
                      Val(log[s].pkgRequest).ModelVersion = Str(v)
            /\ log[s].dispatched =>
                  \E v \in CompiledVersions(s) :
                      FleetJobOf(s).document.model_version = Str(v)

(* C18: in every run, also a repeated one, the bucket and the key of the   *)
(* dispatched fleet job document spell the packaged artifact URI of the    *)
(* packaging job submitted in the same run, and that job completed         *)
C18_DocumentLocationIsOfSameRun ==
    \A s \in Sessions :
        log[s].dispatched =>
            LET doc == FleetJobOf(s).document
            IN  /\ IsDef(log[s].pkgName)
                /\ PkgJobOf(s).status = "COMPLETED"
                /\ S3Format(doc.model_package_bucket, doc.model_package_key) = PackagedArtifactOf(s)

(* C19: for u = s3://<bucket>/<key> and (b, k) = split_s3_path(u), the     *)
(* string "s3://" + b + "/" + k is u again, also for keys with empty       *)
(* segments or with the text s3:// in them                                 *)
C19_SplitRoundTrips ==
    IsDef(result) =>
        Scheme \o Val(result)[1] \o <<"/">> \o Val(result)[2] = UriOf(Val(arg))

(* the mask of the image stem has been through the loop *)
Sorted(stem) == \E i \in 1..(loop - 1) : mask_files[i] = MaskPath(stem)

ClassFile(dir, stem) == dir \o <<"/">> \o stem \o Png

(* C20: every data image whose mask went through the loop is in exactly    *)
(* one class folder, in anomalous if and only if its mask has a non-zero   *)
(* pixel; an image whose mask is still to come is in neither; and every    *)
(* file of a class folder is a copy of a data image, never of a mask       *)
C20_EveryImageSortedOnce ==
    /\ loop >= 1
    /\ \A st \in Stems :
          LET inNormal == ClassFile(dir_normal, st) \in DOMAIN fs
              inAnomalous == ClassFile(dir_anomalous, st) \in DOMAIN fs
              mask == fs[MaskPath(st)].pixels
          IN  IF Sorted(st)
              THEN /\ inNormal # inAnomalous
                   /\ inAnomalous <=> (\E k \in DOMAIN mask : mask[k] # 0)
              ELSE ~inNormal /\ ~inAnomalous
    /\ \A p \in DOMAIN fs :
          (StartsWith(p, dir_normal \o <<"/">>) \/ StartsWith(p, dir_anomalous \o <<"/">>))
              => \E st \in Stems : /\ fs[p].origin = ImagePath(st)
                                   /\ p \in {ClassFile(dir_normal, st), ClassFile(dir_anomalous, st)}

(* the loop is over; a nearly black mask put its image into anomalous and  *)
(* a black mask put its image into normal                                  *)
C20_Witness ==
    /\ loop = Len(mask_files) + 1
    /\ loop > 1
    /\ \E st \in Stems :
          /\ fs[MaskPath(st)].pixels = <<0, 1>>
          /\ ClassFile(dir_anomalous, st) \in DOMAIN fs
    /\ \E st \in Stems :
          /\ fs[MaskPath(st)].pixels = <<0, 0>>
          /\ ClassFile(dir_normal, st) \in DOMAIN fs

====
